---- MODULE Spec2Model ----
(***************************************************************************)
(* Model of maple-core-macro/src/template/attributes.rs: the parser of an  *)
(* element's attribute list (AttributeName, AttributeType, Attribute,      *)
(* AttributeList) and the lowering of each attribute (Attribute::to_tokens)*)
(* into the instructions that wire the element into the reactive runtime.  *)
(*                                                                         *)
(* A token is a string.  The punctuation tokens are "-", ":", "=", ",",    *)
(* "(" and ")"; "0" is a literal; every other token is an identifier in    *)
(* the sense of Ident::parse_any, and the identifiers in Keywords are the  *)
(* ones the strict Ident parser of syn rejects.                            *)
(***************************************************************************)
EXTENDS Integers, Sequences, FiniteSets, TLC

VARIABLES
    input,      \* the token sequence handed to the parser
    pc,         \* position of the driver
    name,       \* result of AttributeName::parse
    shown,      \* AttributeName::fmt of the parsed name
    ty,         \* result of AttributeType::parse
    list,       \* result of AttributeList::parse
    idx,        \* number of attributes of the list already lowered
    out,        \* the TokenStream: instruction groups emitted so far
    prog,       \* generated code being run: its instruction groups
    ip,         \* number of groups of prog already executed
    sig,        \* reactive cells: value of each Signal
    prop,       \* properties of the element
    attr,       \* attributes of the element
    listeners,  \* event listeners registered on the element
    effects,    \* effects registered with the reactive runtime
    noderefs,   \* NodeRefs that were set to the element
    pendingEv,  \* events fired by the host and not yet dispatched
    pendingEff, \* effects triggered by a Signal::set and not yet re-run
    lastWrite,  \* who wrote a cell last: "none", "listener" or "app"
    runs,       \* per effect: its re-runs since the last write of its cell
    changed     \* whether an effect re-run since that write changed a property

compileVars == <<input, pc, name, shown, ty, list, idx, out>>
runVars == <<prog, ip, sig, prop, attr, listeners, effects, noderefs,
             pendingEv, pendingEff, lastWrite, runs, changed>>
vars == <<input, pc, name, shown, ty, list, idx, out,
          prog, ip, sig, prop, attr, listeners, effects, noderefs,
          pendingEv, pendingEff, lastWrite, runs, changed>>

(***************************************************************************)
(* Bounds of the model.                                                    *)
(***************************************************************************)
MaxSegs == 3
MaxAttrs == 2
MaxRunAttrs == 2

(***************************************************************************)
(* Tokens.                                                                 *)
(***************************************************************************)
Punct == {"-", ":", "=", ",", "(", ")"}
Literals == {"0"}
\* the keywords among the identifiers of the inputs
Keywords == {"ref", "type"}

IsIdentShaped(t) == t \notin Punct /\ t \notin Literals

\* input.peek(...): the token at pos, or "" past the end of the stream
Peek(toks, pos) == IF pos <= Len(toks) THEN toks[pos] ELSE ""

\* input.call(Ident::parse_any): accepts keywords as well
ParseAnyIdent(toks, pos) ==
    IF IsIdentShaped(Peek(toks, pos)) /\ Peek(toks, pos) # ""
    THEN [ok |-> TRUE, pos |-> pos + 1, val |-> toks[pos], err |-> ""]
    ELSE [ok |-> FALSE, pos |-> pos, val |-> "", err |-> "expected ident"]

\* input.parse::<Ident>(): the strict parser, which rejects keywords
ParseIdent(toks, pos) ==
    IF IsIdentShaped(Peek(toks, pos)) /\ Peek(toks, pos) # ""
    THEN IF Peek(toks, pos) \in Keywords
         THEN [ok |-> FALSE, pos |-> pos, val |-> "",
               err |-> "expected identifier, found keyword " \o toks[pos]]
         ELSE [ok |-> TRUE, pos |-> pos + 1, val |-> toks[pos], err |-> ""]
    ELSE [ok |-> FALSE, pos |-> pos, val |-> "", err |-> "expected identifier"]

(***************************************************************************)
(* AttributeName: a tag and its (hyphen, identifier) extensions.           *)
(***************************************************************************)
NoName == [tag |-> "", extended |-> <<>>]

RECURSIVE ParseExtended(_, _, _)
ParseExtended(toks, pos, acc) ==
    IF Peek(toks, pos) = "-"
    THEN LET id == ParseIdent(toks, pos + 1)
         IN  IF id.ok
             THEN ParseExtended(toks, id.pos, Append(acc, <<"-", id.val>>))
             ELSE [ok |-> FALSE, pos |-> id.pos, val |-> acc, err |-> id.err]
    ELSE [ok |-> TRUE, pos |-> pos, val |-> acc, err |-> ""]

AttributeName_parse(toks, pos) ==
    LET tag == ParseAnyIdent(toks, pos)
    IN  IF ~tag.ok
        THEN [ok |-> FALSE, pos |-> tag.pos, val |-> NoName, err |-> tag.err]
        ELSE LET ext == ParseExtended(toks, tag.pos, <<>>)
             IN  IF ~ext.ok
                 THEN [ok |-> FALSE, pos |-> ext.pos, val |-> NoName,
                       err |-> ext.err]
                 ELSE [ok |-> TRUE, pos |-> ext.pos,
                       val |-> [tag |-> tag.val, extended |-> ext.val],
                       err |-> ""]

RECURSIVE FmtExtended(_, _)
FmtExtended(f, extended) ==
    IF extended = <<>> THEN f
    ELSE FmtExtended(f \o "-" \o Head(extended)[2], Tail(extended))

AttributeName_fmt(n) == FmtExtended(n.tag, n.extended)

(***************************************************************************)
(* AttributeType: the classifier of a directive.                           *)
(***************************************************************************)
NoType == [kind |-> "", name |-> NoName, event |-> "", prop |-> ""]
DomAttribute(n) == [kind |-> "DomAttribute", name |-> n, event |-> "", prop |-> ""]
Event(e) == [kind |-> "Event", name |-> NoName, event |-> e, prop |-> ""]
Bind(p) == [kind |-> "Bind", name |-> NoName, event |-> "", prop |-> p]
Ref == [kind |-> "Ref", name |-> NoName, event |-> "", prop |-> ""]

\* a faulty variant: an unknown directive is taken for a DOM attribute
ParseDirective_Lenient(ident, ident_str, toks, pos) ==
    LET q == ParseAnyIdent(toks, pos + 1)
    IN  CASE ident_str = "on" /\ q.ok ->
               [ok |-> TRUE, pos |-> q.pos, val |-> Event(q.val), err |-> ""]
          [] ident_str = "bind" /\ q.ok ->
               [ok |-> TRUE, pos |-> q.pos, val |-> Bind(q.val), err |-> ""]
          [] OTHER ->
               [ok |-> TRUE, pos |-> pos, val |-> DomAttribute(ident), err |-> ""]

\* the arm taken when a colon follows the name; pos is the colon's position
ParseDirective(ident, ident_str, toks, pos) ==
    LET q == ParseAnyIdent(toks, pos + 1)
    IN  CASE ident_str = "on" ->
               IF q.ok
               THEN [ok |-> TRUE, pos |-> q.pos, val |-> Event(q.val), err |-> ""]
               ELSE [ok |-> FALSE, pos |-> q.pos, val |-> NoType, err |-> q.err]
          [] ident_str = "bind" ->
               IF q.ok
               THEN [ok |-> TRUE, pos |-> q.pos, val |-> Bind(q.val), err |-> ""]
               ELSE [ok |-> FALSE, pos |-> q.pos, val |-> NoType, err |-> q.err]
          [] OTHER ->
               [ok |-> FALSE, pos |-> pos + 1, val |-> NoType,
                err |-> "unknown directive " \o ident_str]

\* a faulty variant: a DOM attribute keeps the tag and drops the hyphen extensions
AttributeType_parse_TagOnly(toks, pos) ==
    LET ident == AttributeName_parse(toks, pos)
    IN  IF ~ident.ok
        THEN [ok |-> FALSE, pos |-> ident.pos, val |-> NoType, err |-> ident.err]
        ELSE IF AttributeName_fmt(ident.val) = "ref"
        THEN [ok |-> TRUE, pos |-> ident.pos, val |-> Ref, err |-> ""]
        ELSE IF Peek(toks, ident.pos) = ":"
        THEN ParseDirective(ident.val, AttributeName_fmt(ident.val), toks, ident.pos)
        ELSE [ok |-> TRUE, pos |-> ident.pos,
              val |-> DomAttribute([tag |-> ident.val.tag, extended |-> <<>>]),
              err |-> ""]

\* a faulty variant: the colon is looked for before the name is compared with `ref`
AttributeType_parse_ColonFirst(toks, pos) ==
    LET ident == AttributeName_parse(toks, pos)
    IN  IF ~ident.ok
        THEN [ok |-> FALSE, pos |-> ident.pos, val |-> NoType, err |-> ident.err]
        ELSE IF Peek(toks, ident.pos) = ":"
        THEN ParseDirective(ident.val, AttributeName_fmt(ident.val), toks, ident.pos)
        ELSE IF AttributeName_fmt(ident.val) = "ref"
        THEN [ok |-> TRUE, pos |-> ident.pos, val |-> Ref, err |-> ""]
        ELSE [ok |-> TRUE, pos |-> ident.pos,
              val |-> DomAttribute(ident.val), err |-> ""]

AttributeType_parse(toks, pos) ==
    LET ident == AttributeName_parse(toks, pos)
    IN  IF ~ident.ok
        THEN [ok |-> FALSE, pos |-> ident.pos, val |-> NoType, err |-> ident.err]
        ELSE LET ident_str == AttributeName_fmt(ident.val)
             IN  IF ident_str = "ref"
                 THEN [ok |-> TRUE, pos |-> ident.pos, val |-> Ref, err |-> ""]
                 ELSE IF Peek(toks, ident.pos) = ":"
                 THEN ParseDirective(ident.val, ident_str, toks, ident.pos)
                 ELSE [ok |-> TRUE, pos |-> ident.pos,
                       val |-> DomAttribute(ident.val), err |-> ""]

(***************************************************************************)
(* Attribute: a directive, an equals sign and an expression.  The          *)
(* expressions of the model are the one-token ones: a literal or a path    *)
(* made of one identifier that is not a keyword.                           *)
(***************************************************************************)
NoAttribute == [ty |-> NoType, expr |-> ""]

Expr_parse(toks, pos) ==
    IF Peek(toks, pos) \in Literals
       \/ (Peek(toks, pos) # "" /\ IsIdentShaped(Peek(toks, pos))
           /\ Peek(toks, pos) \notin Keywords)
    THEN [ok |-> TRUE, pos |-> pos + 1, val |-> toks[pos], err |-> ""]
    ELSE [ok |-> FALSE, pos |-> pos, val |-> "", err |-> "expected expression"]

Attribute_parse(toks, pos) ==
    LET t == AttributeType_parse(toks, pos)
    IN  IF ~t.ok
        THEN [ok |-> FALSE, pos |-> t.pos, val |-> NoAttribute, err |-> t.err]
        ELSE IF Peek(toks, t.pos) # "="
        THEN [ok |-> FALSE, pos |-> t.pos, val |-> NoAttribute,
              err |-> "expected ="]
        ELSE LET e == Expr_parse(toks, t.pos + 1)
             IN  IF ~e.ok
                 THEN [ok |-> FALSE, pos |-> e.pos, val |-> NoAttribute,
                       err |-> e.err]
                 ELSE [ok |-> TRUE, pos |-> e.pos,
                       val |-> [ty |-> t.val, expr |-> e.val], err |-> ""]

(***************************************************************************)
(* AttributeList: a parenthesized, comma-terminated list of attributes.    *)
(***************************************************************************)
\* content.parse_terminated(Attribute::parse): after each attribute, the end
\* of the content or a comma
RECURSIVE ParseTerminated(_, _, _)
RECURSIVE AfterAttribute(_, _, _)
AfterAttribute(toks, acc, a) ==
    IF ~a.ok
    THEN [ok |-> FALSE, pos |-> a.pos, val |-> acc, err |-> a.err]
    ELSE IF a.pos > Len(toks)
    THEN [ok |-> TRUE, pos |-> a.pos, val |-> Append(acc, a.val), err |-> ""]
    ELSE IF toks[a.pos] = ","
    THEN ParseTerminated(toks, a.pos + 1, Append(acc, a.val))
    ELSE [ok |-> FALSE, pos |-> a.pos, val |-> Append(acc, a.val),
          err |-> "expected ,"]

ParseTerminated(toks, pos, acc) ==
    IF pos > Len(toks)
    THEN [ok |-> TRUE, pos |-> pos, val |-> acc, err |-> ""]
    ELSE AfterAttribute(toks, acc, Attribute_parse(toks, pos))

\* parenthesized!(content in input): the tokens between "(" and its ")"
Parenthesized(toks) ==
    IF Peek(toks, 1) = "(" /\ \E i \in 2..Len(toks) : toks[i] = ")"
    THEN LET close == CHOOSE i \in 2..Len(toks) :
                         /\ toks[i] = ")"
                         /\ \A j \in 2..(i - 1) : toks[j] # ")"
         IN  [ok |-> TRUE, content |-> SubSeq(toks, 2, close - 1), err |-> ""]
    ELSE [ok |-> FALSE, content |-> <<>>, err |-> "expected parentheses"]

\* a faulty variant: the attributes parsed before the failing one are kept and the
\* error is dropped
AttributeList_parse_Partial(toks) ==
    LET p == Parenthesized(toks)
    IN  IF ~p.ok
        THEN [ok |-> FALSE, val |-> <<>>, err |-> p.err]
        ELSE [ok |-> TRUE, val |-> ParseTerminated(p.content, 1, <<>>).val,
              err |-> ""]

AttributeList_parse(toks) ==
    LET p == Parenthesized(toks)
    IN  IF ~p.ok
        THEN [ok |-> FALSE, val |-> <<>>, err |-> p.err]
        ELSE LET attributes == ParseTerminated(p.content, 1, <<>>)
             IN  IF ~attributes.ok
                 THEN [ok |-> FALSE, val |-> <<>>, err |-> attributes.err]
                 ELSE [ok |-> TRUE, val |-> attributes.val, err |-> ""]

(***************************************************************************)
(* Attribute::to_tokens.  An emitted instruction is a record:              *)
(*   op       the call: "set_attribute", "set_property", "event",          *)
(*            "noderef_set" or "compile_error";                            *)
(*   effect   TRUE when the call is the body of a create_effect closure;   *)
(*   name     the attribute, property or event name (the message of a      *)
(*            compile_error);                                              *)
(*   conv     how the call's argument is computed from expr;               *)
(*   expr     the attribute's expression, embedded verbatim;               *)
(*   cell_ty  the declared type of the signal of a bind block, else "";     *)
(*   target_prop  the property a bind listener reads off the event target. *)
(* One tokens.extend(...) appends one group: a sequence of instructions.   *)
(***************************************************************************)
Instr(op, effect, nm, conv, expr, cell_ty, target_prop) ==
    [op |-> op, effect |-> effect, name |-> nm, conv |-> conv, expr |-> expr,
     cell_ty |-> cell_ty, target_prop |-> target_prop]

\* a faulty variant: the attribute is set under the tag, the extensions dropped
DomAttributeArm_TagOnly(n, expr) ==
    << Instr("set_attribute", TRUE, n.tag, "format", expr, "", "") >>

DomAttributeArm(n, expr) ==
    << Instr("set_attribute", TRUE, AttributeName_fmt(n), "format", expr, "", "") >>

\* a faulty variant: the registration of the handler is made reactive
EventArm_Reactive(event, expr) ==
    << Instr("event", TRUE, event, "box", expr, "", "") >>

EventArm(event, expr) ==
    << Instr("event", FALSE, event, "box", expr, "", "") >>

\* a faulty variant: `checked` is given the change event of `value`
JsProperty_SameEvent(p) ==
    CASE p = "value" ->
           [ok |-> TRUE, event_name |-> "input", property_ty |-> "String"]
      [] p = "checked" ->
           [ok |-> TRUE, event_name |-> "input", property_ty |-> "Bool"]
      [] OTHER ->
           [ok |-> FALSE, event_name |-> "", property_ty |-> ""]

\* the table of the properties bind: supports
JsProperty(p) ==
    CASE p = "value" ->
           [ok |-> TRUE, event_name |-> "input", property_ty |-> "String"]
      [] p = "checked" ->
           [ok |-> TRUE, event_name |-> "change", property_ty |-> "Bool"]
      [] OTHER ->
           [ok |-> FALSE, event_name |-> "", property_ty |-> ""]

value_ty(property_ty) ==
    IF property_ty = "Bool" THEN "bool" ELSE "String"

convert_into_jsvalue_fn(property_ty) ==
    IF property_ty = "Bool" THEN "from_bool" ELSE "from_str_format"

convert_from_jsvalue_fn(property_ty) ==
    IF property_ty = "Bool" THEN "as_bool" ELSE "as_string"

\* a faulty variant: the error of an unsupported property is emitted without the
\* early return, and the binding follows it
BindArm_NoReturn(p, expr) ==
    LET d == JsProperty(p)
    IN  (IF ~d.ok
         THEN << Instr("compile_error", FALSE,
                       "property " \o p \o " is not supported with bind:",
                       "", "", "", "") >>
         ELSE <<>>)
        \o << Instr("set_property", TRUE, p,
                    convert_into_jsvalue_fn(d.property_ty), expr,
                    value_ty(d.property_ty), ""),
              Instr("event", FALSE, d.event_name,
                    convert_from_jsvalue_fn(d.property_ty), expr,
                    value_ty(d.property_ty), p) >>

\* a faulty variant: the effect of a binding sets the attribute, not the property
BindArm_SetAttribute(p, expr) ==
    LET d == JsProperty(p)
    IN  IF ~d.ok
        THEN << Instr("compile_error", FALSE,
                      "property " \o p \o " is not supported with bind:",
                      "", "", "", "") >>
        ELSE << Instr("set_attribute", TRUE, p,
                      convert_into_jsvalue_fn(d.property_ty), expr,
                      value_ty(d.property_ty), ""),
                Instr("event", FALSE, d.event_name,
                      convert_from_jsvalue_fn(d.property_ty), expr,
                      value_ty(d.property_ty), p) >>

BindArm(p, expr) ==
    LET d == JsProperty(p)
    IN  IF ~d.ok
        THEN << Instr("compile_error", FALSE,
                      "property " \o p \o " is not supported with bind:",
                      "", "", "", "") >>
        ELSE << Instr("set_property", TRUE, p,
                      convert_into_jsvalue_fn(d.property_ty), expr,
                      value_ty(d.property_ty), ""),
                Instr("event", FALSE, d.event_name,
                      convert_from_jsvalue_fn(d.property_ty), expr,
                      value_ty(d.property_ty), p) >>

RefArm(expr) ==
    << Instr("noderef_set", FALSE, "", "clone_el", expr, "", "") >>

Attribute_to_tokens(a) ==
    CASE a.ty.kind = "DomAttribute" -> DomAttributeArm(a.ty.name, a.expr)
      [] a.ty.kind = "Event" -> EventArm(a.ty.event, a.expr)
      [] a.ty.kind = "Bind" -> BindArm(a.ty.prop, a.expr)
      [] a.ty.kind = "Ref" -> RefArm(a.expr)

(***************************************************************************)
(* Inputs of the bounded check.                                            *)
(***************************************************************************)
NameIds == {"ref", "on", "bind", "data", "type"}

\* the sequences of one to n identifier segments
SegSeqs(n) == UNION {[1..k -> NameIds] : k \in 1..n}

\* the tokens of a-b-c: the segments with a hyphen between neighbours
RECURSIVE NameToks(_)
NameToks(segs) ==
    IF Len(segs) = 1 THEN <<segs[1]>>
    ELSE NameToks(SubSeq(segs, 1, Len(segs) - 1)) \o <<"-", segs[Len(segs)]>>

\* what may follow a name in the stream
NameTails == {<<>>, <<"=", "e">>, <<":", "click">>, <<"-">>}

NameInputs ==
    {NameToks(s) \o t : s \in SegSeqs(MaxSegs), t \in NameTails}
    \cup {<<>>, <<"0">>, <<"=", "e">>}

Qualifiers ==
    {<<>>, <<":", "click">>, <<":", "value">>, <<":", "unknownprop">>,
     <<":", "type">>, <<":">>}

DirectiveTails == {<<>>, <<"=", "e">>}

DirectiveInputs ==
    {NameToks(s) \o q \o t :
        s \in SegSeqs(MaxSegs), q \in Qualifiers, t \in DirectiveTails}
    \cup {<<>>, <<"0">>}

Directives ==
    { <<"value">>, <<"data", "-", "id">>, <<"ref">>, <<"on", ":", "click">>,
      <<"bind", ":", "value">>, <<"bind", ":", "checked">>,
      <<"bind", ":", "unknownprop">>, <<"bind", ":", "class">>,
      <<"data", "-", "on", ":", "click">>,
      <<"data", "-", "type">>, <<"0">> }

Exprs == {"my_signal", "my_flag"}

AttrSrc ==
    {d \o <<"=", e>> : d \in Directives, e \in Exprs}
    \cup {<<"class">>, <<"class", "=">>}

\* the tokens of the attributes, comma-separated
RECURSIVE Commas(_)
Commas(as) ==
    IF Len(as) = 0 THEN <<>>
    ELSE IF Len(as) = 1 THEN as[1]
    ELSE Commas(SubSeq(as, 1, Len(as) - 1)) \o <<",">> \o as[Len(as)]

AttrSeqs(n) == UNION {[1..k -> AttrSrc] : k \in 0..n}

E2EInput ==
    << "(", "value", "=", "my_signal", ",", "on", ":", "click", "=",
       "my_handler", ",", "data", "-", "id", "=", "computed_expr", ",",
       "ref", "=", "my_ref", ")" >>

E2EBindInput ==
    << "(", "bind", ":", "value", "=", "my_signal", ",", "on", ":", "click",
       "=", "my_handler", ",", "data", "-", "id", "=", "computed_expr", ",",
       "ref", "=", "my_ref", ")" >>

ListInputs ==
    {<<"(">> \o Commas(as) \o <<")">> : as \in AttrSeqs(MaxAttrs)}
    \cup {<<"(">> \o Commas(as) \o <<",", ")">> : as \in AttrSeqs(MaxAttrs) \ {<<>>}}
    \cup {E2EInput, E2EBindInput,
          <<"(", "class", "=", "my_signal", "ref", "=", "my_flag", ")">>,
          <<"class", "=", "my_signal">>, <<>>}

(***************************************************************************)
(* The compile-time pipeline.                                              *)
(***************************************************************************)
NoResult == [ok |-> FALSE, pos |-> 0, val |-> NoName, err |-> ""]
NoTypeResult == [ok |-> FALSE, pos |-> 0, val |-> NoType, err |-> ""]
NoList == [ok |-> FALSE, val |-> <<>>, err |-> ""]

Idle ==
    /\ prog = <<>> /\ ip = 0
    /\ sig = <<>> /\ prop = <<>> /\ attr = <<>>
    /\ listeners = <<>> /\ effects = <<>> /\ noderefs = <<>>
    /\ pendingEv = <<>> /\ pendingEff = <<>>
    /\ lastWrite = "none" /\ runs = <<>> /\ changed = FALSE

InitCompile(inputs, start) ==
    /\ input \in inputs
    /\ pc = start
    /\ name = NoResult /\ shown = ""
    /\ ty = NoTypeResult
    /\ list = NoList /\ idx = 0 /\ out = <<>>
    /\ Idle

\* the macro's entry point parses the attribute list
ParseList ==
    /\ pc = "parse"
    /\ list' = AttributeList_parse(input)
    /\ pc' = IF ~list'.ok THEN "failed"
             ELSE IF Len(list'.val) = 0 THEN "done" ELSE "lower"
    /\ UNCHANGED <<input, name, shown, ty, idx, out>>
    /\ UNCHANGED runVars

\* the attributes are lowered one after the other, in the list's order
Lower ==
    /\ pc = "lower"
    /\ idx < Len(list.val)
    /\ out' = Append(out, Attribute_to_tokens(list.val[idx + 1]))
    /\ idx' = idx + 1
    /\ pc' = IF idx + 1 = Len(list.val) THEN "done" ELSE "lower"
    /\ UNCHANGED <<input, name, shown, ty, list>>
    /\ UNCHANGED runVars

Init == InitCompile(ListInputs, "parse")
Next == ParseList \/ Lower
Spec == Init /\ [][Next]_vars

\* the name parser and its display, applied to a stream
ParseName ==
    /\ pc = "name"
    /\ name' = AttributeName_parse(input, 1)
    /\ pc' = IF name'.ok THEN "named" ELSE "failed"
    /\ UNCHANGED <<input, shown, ty, list, idx, out>>
    /\ UNCHANGED runVars

Display ==
    /\ pc = "named"
    /\ shown' = AttributeName_fmt(name.val)
    /\ pc' = "shown"
    /\ UNCHANGED <<input, name, ty, list, idx, out>>
    /\ UNCHANGED runVars

InitName == InitCompile(NameInputs, "name")
NextName == ParseName \/ Display
SpecName == InitName /\ [][NextName]_vars

\* the classifier, applied to a stream
Classify ==
    /\ pc = "classify"
    /\ ty' = AttributeType_parse(input, 1)
    /\ pc' = IF ty'.ok THEN "classified" ELSE "failed"
    /\ UNCHANGED <<input, name, shown, list, idx, out>>
    /\ UNCHANGED runVars

\* the rest of Attribute::parse and the lowering of the attribute
LowerClassified ==
    /\ pc = "classified"
    /\ IF Attribute_parse(input, 1).ok
       THEN /\ out' = <<Attribute_to_tokens(Attribute_parse(input, 1).val)>>
            /\ pc' = "lowered"
       ELSE /\ out' = out
            /\ pc' = "failed"
    /\ UNCHANGED <<input, name, shown, ty, list, idx>>
    /\ UNCHANGED runVars

InitClassify == InitCompile(DirectiveInputs, "classify")
NextClassify == Classify \/ LowerClassified
SpecClassify == InitClassify /\ [][NextClassify]_vars

(***************************************************************************)
(* The generated code at run time.  The reactive runtime, the node and the *)
(* host are outside attributes.rs: create_effect registers a closure and   *)
(* runs it at once, and runs it again whenever a cell it reads is set; the *)
(* element sets attributes and properties and registers listeners;         *)
(* setting a property from code fires no event.  An expression e reads the *)
(* cell named e.  A cell of type String holds a string, a cell of type     *)
(* bool holds "true" or "false"; a JsValue is a record of its type and its *)
(* value.                                                                  *)
(***************************************************************************)
StrValues == {"", "a", "b"}
BoolValues == {"true", "false"}
CellValues == [my_signal : StrValues, my_flag : BoolValues]
JsStr(v) == [t |-> "string", v |-> v]
JsBool(v) == [t |-> "bool", v |-> v]
HostProps == [value |-> JsStr(""), checked |-> JsBool("false")]
HostAttrs == [n \in {"value", "checked", "data-id"} |-> "<unset>"]

RunSrc ==
    { <<"bind", ":", "value", "=", "my_signal">>,
      <<"bind", ":", "checked", "=", "my_flag">>,
      <<"on", ":", "click", "=", "my_signal">>,
      <<"on", ":", "input", "=", "my_flag">>,
      <<"value", "=", "my_signal">>,
      <<"data", "-", "id", "=", "my_flag">>,
      <<"ref", "=", "my_ref">> }

RunSeqs(n) == UNION {[1..k -> RunSrc] : k \in 1..n}
RunInputs == {<<"(">> \o Commas(as) \o <<")">> : as \in RunSeqs(MaxRunAttrs)}

\* every attribute of the list lowered, in order
LowerAll(attributes) ==
    [i \in 1..Len(attributes) |-> Attribute_to_tokens(attributes[i])]

\* JsValue::from_bool(*signal.get()), JsValue::from_str(&format!("{}", signal.get()))
IntoJsValue(conv, v) ==
    IF conv = "from_bool" THEN JsBool(v) ELSE JsStr(v)

\* JsValue::as_bool(..).unwrap(), JsValue::as_string(..).unwrap()
FromJsValue(conv, js) ==
    IF conv = "as_bool"
    THEN (IF js.t = "bool" THEN js.v ELSE "<panic>")
    ELSE (IF js.t = "string" THEN js.v ELSE "<panic>")

\* the state the instructions act on
RunState ==
    [sig |-> sig, prop |-> prop, attr |-> attr, listeners |-> listeners,
     effects |-> effects, noderefs |-> noderefs]

\* one call of an instruction's body
RunBody(st, i) ==
    CASE i.op = "set_attribute" ->
           [st EXCEPT !.attr[i.name] = st.sig[i.expr]]
      [] i.op = "set_property" ->
           [st EXCEPT !.prop[i.name] = IntoJsValue(i.conv, st.sig[i.expr])]
      [] i.op = "event" ->
           [st EXCEPT !.listeners = Append(@, i)]
      [] i.op = "noderef_set" ->
           [st EXCEPT !.noderefs = Append(@, i.expr)]
      [] OTHER -> st

\* an instruction at construction: create_effect registers the closure and
\* runs it once
ExecInstr(st, i) ==
    IF i.effect
    THEN RunBody([st EXCEPT !.effects = Append(@, i)], i)
    ELSE RunBody(st, i)

RECURSIVE ExecGroup(_, _)
ExecGroup(st, group) ==
    IF group = <<>> THEN st
    ELSE ExecGroup(ExecInstr(st, Head(group)), Tail(group))

\* the effects that read cell c, in the order of their registration
RECURSIVE Dependents(_, _, _)
Dependents(effs, c, i) ==
    IF i > Len(effs) THEN <<>>
    ELSE (IF effs[i].expr = c THEN <<i>> ELSE <<>>)
         \o Dependents(effs, c, i + 1)

\* the listeners of event ev, in the order of their registration
RECURSIVE ListenersOf(_, _, _)
ListenersOf(ls, ev, i) ==
    IF i > Len(ls) THEN <<>>
    ELSE (IF ls[i].name = ev THEN <<i>> ELSE <<>>)
         \o ListenersOf(ls, ev, i + 1)

Quiescent == pendingEv = <<>> /\ pendingEff = <<>>
Constructed == ip = Len(prog)

InitRun ==
    /\ input \in RunInputs
    /\ pc = "run"
    /\ name = NoResult /\ shown = "" /\ ty = NoTypeResult
    /\ list = AttributeList_parse(input)
    /\ idx = Len(list.val)
    /\ out = LowerAll(list.val)
    /\ prog = out
    /\ ip = 0
    /\ sig \in CellValues
    /\ prop = HostProps
    /\ attr = HostAttrs
    /\ listeners = <<>> /\ effects = <<>> /\ noderefs = <<>>
    /\ pendingEv = <<>> /\ pendingEff = <<>>
    /\ lastWrite = "none" /\ runs = <<>> /\ changed = FALSE

\* the element's construction runs the next group of instructions
Construct ==
    /\ pc = "run"
    /\ ip < Len(prog)
    /\ LET st == ExecGroup(RunState, prog[ip + 1])
       IN  /\ sig' = st.sig
           /\ prop' = st.prop
           /\ attr' = st.attr
           /\ listeners' = st.listeners
           /\ effects' = st.effects
           /\ noderefs' = st.noderefs
           /\ runs' = [i \in 1..Len(st.effects) |-> 0]
    /\ ip' = ip + 1
    /\ UNCHANGED <<prog, pendingEv, pendingEff, lastWrite, changed>>
    /\ UNCHANGED compileVars

\* the user edits the element: the host sets the property and fires the
\* property's event at the element
HostInput ==
    /\ pc = "run" /\ Constructed /\ Quiescent
    /\ \E ev \in {"input", "change", "click"} :
          /\ \/ ev = "input" /\ \E v \in StrValues :
                    prop' = [prop EXCEPT !.value = JsStr(v)]
             \/ ev = "change" /\ \E v \in BoolValues :
                    prop' = [prop EXCEPT !.checked = JsBool(v)]
             \/ ev = "click" /\ prop' = prop
          /\ pendingEv' = ListenersOf(listeners, ev, 1)
    /\ UNCHANGED <<prog, ip, sig, attr, listeners, effects, noderefs,
                   pendingEff, lastWrite, runs, changed>>
    /\ UNCHANGED compileVars

\* the next listener of the event is called: the listener of a binding
\* sets the cell to the target's property, which triggers the effects that
\* read the cell; a handler given by the template is the application's
DispatchListener ==
    /\ pc = "run"
    /\ pendingEv # <<>> /\ pendingEff = <<>>
    /\ LET l == listeners[Head(pendingEv)]
       IN  IF l.conv \in {"as_string", "as_bool"}
           THEN /\ sig' = [sig EXCEPT ![l.expr] =
                              FromJsValue(l.conv, prop[l.target_prop])]
                /\ pendingEff' = Dependents(effects, l.expr, 1)
                /\ runs' = [i \in 1..Len(effects) |->
                              IF effects[i].expr = l.expr THEN 0 ELSE runs[i]]
                /\ lastWrite' = "listener"
                /\ changed' = FALSE
           ELSE UNCHANGED <<sig, pendingEff, runs, lastWrite, changed>>
    /\ pendingEv' = Tail(pendingEv)
    /\ UNCHANGED <<prog, ip, prop, attr, listeners, effects, noderefs>>
    /\ UNCHANGED compileVars

\* a triggered effect runs again
RunEffect ==
    /\ pc = "run"
    /\ pendingEff # <<>>
    /\ LET st == RunBody(RunState, effects[Head(pendingEff)])
       IN  /\ prop' = st.prop
           /\ attr' = st.attr
           /\ listeners' = st.listeners
           /\ noderefs' = st.noderefs
           /\ changed' = (changed \/ st.prop # prop)
    /\ runs' = [runs EXCEPT ![Head(pendingEff)] = @ + 1]
    /\ pendingEff' = Tail(pendingEff)
    /\ UNCHANGED <<prog, ip, sig, effects, pendingEv, lastWrite>>
    /\ UNCHANGED compileVars

\* the application sets a cell
AppSet ==
    /\ pc = "run" /\ Constructed /\ Quiescent
    /\ \E c \in DOMAIN sig : \E v \in (IF c = "my_flag" THEN BoolValues
                                                      ELSE StrValues) :
          /\ sig' = [sig EXCEPT ![c] = v]
          /\ pendingEff' = Dependents(effects, c, 1)
          /\ runs' = [i \in 1..Len(effects) |->
                        IF effects[i].expr = c THEN 0 ELSE runs[i]]
    /\ lastWrite' = "app"
    /\ changed' = FALSE
    /\ UNCHANGED <<prog, ip, prop, attr, listeners, effects, noderefs,
                   pendingEv>>
    /\ UNCHANGED compileVars

NextRun == Construct \/ HostInput \/ DispatchListener \/ RunEffect \/ AppSet
SpecRun == InitRun /\ [][NextRun]_vars
FairSpecRun ==
    SpecRun /\ WF_vars(Construct) /\ WF_vars(DispatchListener)
            /\ WF_vars(RunEffect)

(***************************************************************************)
(* Helpers of the properties.                                              *)
(***************************************************************************)
\* the segments joined by single hyphens
RECURSIVE Dashed(_)
Dashed(segs) ==
    IF Len(segs) = 1 THEN segs[1]
    ELSE segs[1] \o "-" \o Dashed(Tail(segs))

\* the (hyphen, identifier) pairs of the segments after the first
ExtensionPairs(segs) == [i \in 1..(Len(segs) - 1) |-> <<"-", segs[i + 1]>>]

\* the text of the tokens lo..hi of the input
RECURSIVE Text(_, _, _)
Text(toks, lo, hi) ==
    IF lo > hi THEN "" ELSE toks[lo] \o Text(toks, lo + 1, hi)

\* the diagnostics reported: the parse error, and each compile_error emitted
CompileErrors(group) == {i \in 1..Len(group) : group[i].op = "compile_error"}

RECURSIVE EmittedErrors(_)
EmittedErrors(groups) ==
    IF groups = <<>> THEN 0
    ELSE Cardinality(CompileErrors(Head(groups))) + EmittedErrors(Tail(groups))

NDiagnostics == (IF pc = "failed" THEN 1 ELSE 0) + EmittedErrors(out)

(***************************************************************************)
(* C10.  Name round trip: every name of one to three identifier segments   *)
(* a, a-b, a-b-c is accepted whole as one AttributeName, every             *)
(* (hyphen, identifier) pair consumed, and displays as the segments joined *)
(* by single hyphens in the original order.                                *)
(***************************************************************************)
C10_NameRoundTrip ==
    \A s \in SegSeqs(MaxSegs) : \A t \in NameTails \ {<<"-">>} :
        input = NameToks(s) \o t =>
            /\ pc # "failed"
            /\ pc \in {"named", "shown"} =>
                   /\ name.ok
                   /\ name.pos = Len(NameToks(s)) + 1
                   /\ name.val = [tag |-> s[1], extended |-> ExtensionPairs(s)]
            /\ pc = "shown" => shown = Dashed(s)

\* C10 restricted: the round trip holds when no segment after the first is a
\* keyword; the first segment may be one.
C10_RoundTripWithoutKeywordExtension ==
    \A s \in SegSeqs(MaxSegs) : \A t \in NameTails \ {<<"-">>} :
        (/\ input = NameToks(s) \o t
         /\ \A i \in 2..Len(s) : s[i] \notin Keywords) =>
            /\ pc # "failed"
            /\ pc \in {"named", "shown"} =>
                   /\ name.ok
                   /\ name.pos = Len(NameToks(s)) + 1
                   /\ name.val = [tag |-> s[1], extended |-> ExtensionPairs(s)]
            /\ pc = "shown" => shown = Dashed(s)

\* C10: a name with a keyword segment after the first is rejected
C10_KeywordExtensionRejected ==
    /\ pc = "failed"
    /\ input = <<"data", "-", "type">>
    /\ ~name.ok

(***************************************************************************)
(* The directive at the head of the input, as the name parser reads it.    *)
(***************************************************************************)
HeadName == AttributeName_parse(input, 1)
HeadNameStr == AttributeName_fmt(HeadName.val)
\* the token that follows the parsed name, and the one after it
AfterName == Peek(input, HeadName.pos)
Qualifier == Peek(input, HeadName.pos + 1)
HasQualifier == Qualifier # "" /\ IsIdentShaped(Qualifier)
Classified == pc \in {"classified", "lowered", "failed"}

(***************************************************************************)
(* C3.  Classification of the non-ref forms: for every parsed name that is *)
(* not `ref`, a colon followed by an identifier-shaped qualifier q makes   *)
(* the tag `on` an Event{event: q} and the tag `bind` a Bind{prop: q},     *)
(* for any q; without a colon the result is a DomAttribute whose name is   *)
(* the whole parsed name, every hyphen extension included.                 *)
(***************************************************************************)
C3_Classification ==
    (Classified /\ HeadName.ok /\ HeadNameStr # "ref") =>
        /\ (AfterName = ":" /\ HasQualifier /\ HeadNameStr = "on") =>
               /\ ty.ok
               /\ ty.val = Event(Qualifier)
               /\ ty.pos = HeadName.pos + 2
        /\ (AfterName = ":" /\ HasQualifier /\ HeadNameStr = "bind") =>
               /\ ty.ok
               /\ ty.val = Bind(Qualifier)
               /\ ty.pos = HeadName.pos + 2
        /\ AfterName # ":" =>
               /\ ty.ok
               /\ ty.val.kind = "DomAttribute"
               /\ ty.val.name = HeadName.val
               /\ AttributeName_fmt(ty.val.name) = Text(input, 1, HeadName.pos - 1)
               /\ ty.pos = HeadName.pos

\* C3: the three cases happen: an event, a binding of an unsupported
\* property, and a hyphenated DOM attribute
C3_Witness ==
    /\ pc = "classified"
    /\ \/ input = <<"on", ":", "click", "=", "e">> /\ ty.val = Event("click")
       \/ input = <<"bind", ":", "unknownprop">> /\ ty.val = Bind("unknownprop")
       \/ /\ input = <<"data", "-", "on", "-", "bind", "=", "e">>
          /\ ty.val.kind = "DomAttribute"

(***************************************************************************)
(* C4.  Unknown directive: a parsed name other than `on`, `bind` and `ref` *)
(* followed by a colon fails with an unknown-directive error that names    *)
(* the offending tag, and no AttributeType is produced; `data-on:click` is *)
(* the tag `data-on` followed by a colon and takes this path.              *)
(***************************************************************************)
C4_UnknownDirective ==
    /\ (/\ Classified
        /\ HeadName.ok
        /\ HeadNameStr \notin {"on", "bind", "ref"}
        /\ AfterName = ":") =>
           /\ pc = "failed"
           /\ ~ty.ok
           /\ ty.val = NoType
           /\ ty.err = "unknown directive " \o Text(input, 1, HeadName.pos - 1)
           /\ out = <<>>
    /\ (/\ Classified
        /\ Len(input) >= 5
        /\ SubSeq(input, 1, 5) = <<"data", "-", "on", ":", "click">>) =>
           /\ ~ty.ok
           /\ ty.err = "unknown directive data-on"

C4_Witness ==
    /\ pc = "failed"
    /\ input = <<"data", "-", "on", ":", "click", "=", "e">>
    /\ ty.err = "unknown directive data-on"

(***************************************************************************)
(* C8.  `ref` is reserved.  As claimed: whenever the leading identifier of *)
(* the directive is `ref`, the classifier returns Ref at once, consuming   *)
(* no colon or qualifier, whatever follows.                                *)
(***************************************************************************)
C8_LeadingRefIsRef ==
    (Classified /\ HeadName.ok /\ Peek(input, 1) = "ref") =>
        /\ ty.ok
        /\ ty.val = Ref

(***************************************************************************)
(* C8, amended.  Whenever the whole parsed name, hyphen extensions         *)
(* included, is `ref`, the classifier returns Ref at once, consuming no    *)
(* colon or qualifier, whatever follows; a name that only starts with the  *)
(* segment `ref` is classified like any other name.  Lowering a Ref        *)
(* attribute emits one instruction, outside any effect, that sets the      *)
(* NodeRef given by the expression to a clone of the element.              *)
(***************************************************************************)
C8_RefReserved ==
    /\ (Classified /\ HeadName.ok /\ HeadNameStr = "ref") =>
           /\ ty.ok
           /\ ty.val = Ref
           /\ ty.pos = 2
    /\ (Classified /\ HeadName.ok /\ Peek(input, 1) = "ref" /\ HeadNameStr # "ref") =>
           \/ ~ty.ok /\ AfterName = ":"
           \/ ty.ok /\ ty.val = DomAttribute(HeadName.val)
    /\ (pc = "lowered" /\ ty.val = Ref) =>
           out = << << Instr("noderef_set", FALSE, "", "clone_el",
                             input[Len(input)], "", "") >> >>

\* C8: `ref` followed by a colon is classified Ref with the colon left in
\* the stream, and `ref = e` is lowered
C8_Witness ==
    \/ /\ pc = "failed" /\ input = <<"ref", ":", "click", "=", "e">>
       /\ ty.ok /\ ty.val = Ref /\ ty.pos = 2
    \/ /\ pc = "lowered" /\ input = <<"ref", "=", "e">>

(***************************************************************************)
(* Helpers of the properties of the list pipeline.                         *)
(***************************************************************************)
\* the source of an attribute that parses whole, and of one that does not
GoodSrc == {a \in AttrSrc : /\ Attribute_parse(a, 1).ok
                            /\ Attribute_parse(a, 1).pos = Len(a) + 1}
BadSrc == {a \in AttrSrc : ~Attribute_parse(a, 1).ok}

Finished == pc \in {"done", "failed"}

\* the attributes lowered so far, with their groups
Lowered == 1..Len(out)

E2EBindGroup ==
    << Instr("set_property", TRUE, "value", "from_str_format", "my_signal",
             "String", ""),
       Instr("event", FALSE, "input", "as_string", "my_signal", "String",
             "value") >>
E2EValueGroup ==
    << Instr("set_attribute", TRUE, "value", "format", "my_signal", "", "") >>
E2ERest ==
    << << Instr("event", FALSE, "click", "box", "my_handler", "", "") >>,
       << Instr("set_attribute", TRUE, "data-id", "format", "computed_expr",
                "", "") >>,
       << Instr("noderef_set", FALSE, "", "clone_el", "my_ref", "", "") >> >>

C2_EndToEndBinding ==
    (input = E2EInput /\ Finished) =>
        /\ pc = "done"
        /\ out = <<E2EBindGroup>> \o E2ERest

(***************************************************************************)
(* C2, amended.  The list (value=my_signal, on:click=my_handler,           *)
(* data-id=computed_expr, ref=my_ref) lowers to four groups in source      *)
(* order, the first of which is a reactive attribute-set effect for the    *)
(* attribute `value`; it is the list that starts with bind:value=my_signal *)
(* whose first group is the two-way binding of `value` with `input` and    *)
(* String.  The other three groups are the one-time registration of        *)
(* `click`, the reactive attribute-set effect for `data-id` and the        *)
(* one-time reference assignment.                                          *)
(***************************************************************************)
C2_EndToEnd ==
    /\ input = E2EInput =>
           /\ pc # "failed"
           /\ pc \in {"lower", "done"} =>
                  out = SubSeq(<<E2EValueGroup>> \o E2ERest, 1, idx)
           /\ pc = "done" => idx = 4
    /\ input = E2EBindInput =>
           /\ pc # "failed"
           /\ pc \in {"lower", "done"} =>
                  out = SubSeq(<<E2EBindGroup>> \o E2ERest, 1, idx)
           /\ pc = "done" => idx = 4

C2_Witness ==
    /\ input = E2EInput
    /\ pc = "done"
    /\ Len(out) = 4

(***************************************************************************)
(* C5.  Unsupported binding property: for every Bind{prop} whose prop is   *)
(* neither `value` nor `checked`, the lowering fails with an error naming  *)
(* prop; that is the one diagnostic of the attribute, and no binding       *)
(* instruction is emitted for it: no effect, no set_property, no listener. *)
(***************************************************************************)
C5_UnsupportedProperty ==
    \A i \in Lowered :
        (/\ list.val[i].ty.kind = "Bind"
         /\ list.val[i].ty.prop \notin {"value", "checked"}) =>
            /\ Len(out[i]) = 1
            /\ out[i][1].op = "compile_error"
            /\ out[i][1].name = "property " \o list.val[i].ty.prop
                                \o " is not supported with bind:"
            /\ ~out[i][1].effect
            /\ \A j \in 1..Len(out[i]) :
                   out[i][j].op \notin {"set_property", "set_attribute",
                                        "event", "noderef_set"}

C5_Witness ==
    /\ pc = "done"
    /\ input = <<"(", "bind", ":", "unknownprop", "=", "my_signal", ",",
                 "ref", "=", "my_flag", ")">>
    /\ Len(out) = 2
    /\ out[1][1].op = "compile_error"
    /\ NDiagnostics = 1

(***************************************************************************)
(* C7.  Property descriptor and its use: `value` resolves to the change    *)
(* event `input` and the kind String, `checked` to `change` and Boolean;   *)
(* the group of a supported Bind is one reactive effect that sets the      *)
(* property prop and one listener on the descriptor's change event; the    *)
(* kind alone gives the declared type of the cell and the conversion of    *)
(* each direction (Boolean: bool, from_bool, as_bool; String: String,      *)
(* from_str, as_string).                                                   *)
(***************************************************************************)
ExpectedEvent(p) == IF p = "value" THEN "input" ELSE "change"
ExpectedKind(p) == IF p = "value" THEN "String" ELSE "Bool"
ExpectedCellTy(kind) == IF kind = "String" THEN "String" ELSE "bool"
ExpectedInto(kind) == IF kind = "String" THEN "from_str_format" ELSE "from_bool"
ExpectedFrom(kind) == IF kind = "String" THEN "as_string" ELSE "as_bool"

C7_PropertyDescriptor ==
    \A i \in Lowered :
        (/\ list.val[i].ty.kind = "Bind"
         /\ list.val[i].ty.prop \in {"value", "checked"}) =>
            LET p == list.val[i].ty.prop
                e == list.val[i].expr
                k == ExpectedKind(p)
            IN  /\ JsProperty(p).ok
                /\ JsProperty(p).event_name = ExpectedEvent(p)
                /\ JsProperty(p).property_ty = k
                /\ out[i] =
                     << Instr("set_property", TRUE, p, ExpectedInto(k), e,
                              ExpectedCellTy(k), ""),
                        Instr("event", FALSE, ExpectedEvent(p), ExpectedFrom(k),
                              e, ExpectedCellTy(k), p) >>

C7_Witness ==
    /\ pc = "done"
    /\ input = <<"(", "bind", ":", "checked", "=", "my_flag", ",",
                 "bind", ":", "value", "=", "my_signal", ")">>
    /\ Len(out) = 2
    /\ out[1][2].name = "change"
    /\ out[2][2].name = "input"

(***************************************************************************)
(* Helpers of the properties of the generated code.                        *)
(***************************************************************************)
\* the groups of prog already executed
Executed == 1..ip

\* the attribute that group g was lowered from
Source(g) == list.val[g]

\* the cell of a binding is what the element's property holds
BindSynced(a) ==
    prop[a.ty.prop] = IF a.ty.prop = "checked" THEN JsBool(sig[a.expr])
                                               ELSE JsStr(sig[a.expr])

\* the number of listeners registered that are instruction l
Registered(l) == Cardinality({i \in 1..Len(listeners) : listeners[i] = l})

(***************************************************************************)
(* C6.  The feedback loop of a binding is bounded and idempotent: after    *)
(* the change event fires and the listener writes the host's value into    *)
(* the cell, the property-setting effect runs again at most once for that  *)
(* write and sets the property to the value the host already holds; no     *)
(* event and no effect run follows it, and the system comes to rest with   *)
(* the cell equal to the element's property.  A write of the value the     *)
(* cell already holds leaves the cell's value as it is.                    *)
(***************************************************************************)
C6_FeedbackState ==
    /\ \A i \in DOMAIN runs : runs[i] <= 1
    /\ lastWrite = "listener" => ~changed
    /\ (/\ Constructed
        /\ pendingEv = <<>>
        /\ (pendingEff = <<>> \/ lastWrite = "listener")) =>
           \A g \in Executed :
               Source(g).ty.kind = "Bind" => BindSynced(Source(g))
    /\ "<panic>" \notin {sig[c] : c \in DOMAIN sig}

\* a re-run of an effect fires no event and triggers no effect
C6_FeedbackStep ==
    (pendingEff # <<>> /\ pendingEff' # pendingEff) =>
        /\ pendingEff' = Tail(pendingEff)
        /\ pendingEv' = pendingEv
        /\ sig' = sig

C6_BoundedFeedback ==
    /\ []C6_FeedbackState
    /\ [][C6_FeedbackStep]_vars
    /\ (~Quiescent ~> Quiescent)

\* C6: the listener of a binding wrote the host's value into the cell, the
\* effect ran again, and the system is at rest
C6_Witness ==
    /\ Quiescent /\ Constructed
    /\ lastWrite = "listener"
    /\ \E i \in DOMAIN runs : runs[i] = 1 /\ effects[i].op = "set_property"
    /\ prop.value = JsStr("a")
    /\ sig.my_signal = "a"

(***************************************************************************)
(* C9.  Event handlers are one-time and not reactive: lowering an Event    *)
(* emits one registration of the handler for the event on the element and  *)
(* no create_effect; in any run of the generated code the handler is       *)
(* registered once, at construction, and never again when a cell the       *)
(* handler expression reads is set.                                        *)
(***************************************************************************)
C9_EventRegisteredOnce ==
    \A g \in 1..Len(prog) :
        Source(g).ty.kind = "Event" =>
            /\ prog[g] = << Instr("event", FALSE, Source(g).ty.event, "box",
                                  Source(g).expr, "", "") >>
            /\ \A i \in DOMAIN effects : effects[i].op # "event"
            /\ Registered(prog[g][1]) =
                   Cardinality({h \in Executed : prog[h] = prog[g]})

\* C9: after the construction the cell the handler reads was set, the
\* effects have run again, and the handler is registered once
C9_Witness ==
    /\ Constructed /\ Quiescent
    /\ lastWrite = "app"
    /\ \E g \in 1..Len(prog) :
          /\ Source(g).ty.kind = "Event"
          /\ Source(g).expr = "my_signal"
          /\ Registered(prog[g][1]) = 1
    /\ \E i \in DOMAIN runs : runs[i] = 1 /\ effects[i].expr = "my_signal"

====
